---- MODULE Spec2Model ----
(***************************************************************************)
(* Model of the Chamber RTD DAQ: the Modbus RTU client (modbus.py) and the *)
(* acquisition / streaming / upload loop (rtd.py).                         *)
(*                                                                         *)
(* Threads: the main thread running main(), the daemon accept thread       *)
(* running handle_clients(), and one non-daemon thread per upload.         *)
(* A KeyboardInterrupt is delivered to the main thread only, between two   *)
(* steps of main().                                                        *)
(***************************************************************************)
EXTENDS Integers, Sequences, FiniteSets, TLC

-----------------------------------------------------------------------------
(* Bounds of the model.                                                    *)
MaxTicks == 2        \* device reads taken in one run
MaxFlush == 2        \* upload threads created in one run
MaxClients == 2      \* LabVIEW connections arriving in one run
MaxLen == 3          \* length of the byte strings given to crc16
MaxElapsed == 6      \* seconds counted in one call of recv_full_response

(* Program constants.                                                      *)
DefaultNumRegisters == 8   \* read_input_registers(..., num_registers=8)
SecondsDivisor == 60       \* time.sleep(rc.SAMPLE_RATE / 60)
CrcSeed == 65535           \* crc = 0xFFFF
CrcPoly == 40961           \* 0xA001
MinBytes == 5              \* min_bytes=5, and "len(response) < 5"
RecvTimeout == 3           \* recv_full_response(sock, min_bytes=5, timeout=3)
RecvSize == 1024           \* sock.recv(1024)
FunctionCode == 4          \* function_code = 4
Slave == 1                 \* ModbusClient(..., slave=1, ...)

None == 0

(* Values of rtd_config tried: samples per minute, minutes between uploads *)
(* and number of RTD channels (below, at and above the default of          *)
(* read_input_registers).                                                  *)
SampleRates == {1, 2}
UploadIntervals == {1}
RegisterCounts == {DefaultNumRegisters - 1, DefaultNumRegisters,
                   DefaultNumRegisters + 1}

VARIABLES
    (* configuration: rtd_config and the command line *)
    NUM_REGISTERS, SAMPLE_RATE, DB_UPLOADINTERVAL, args_db,
    (* module globals of rtd.py *)
    SERVER_RUNNING, CLIENTS,
    (* main(): position and locals *)
    pc, df, count, thread, registers, requested, row_dict, slept, exc,
    bi,          \* position of the list iterator of broadcast_tcp_message
    si,          \* position of the list iterator of stop_server
    tick,        \* number of successful device reads so far (the timestamp)
    (* upload threads and what they share *)
    flush, csv_file, uploaded,
    (* accept thread *)
    apc, aconn, nconn,
    (* sockets of the LabVIEW clients *)
    sock,
    (* the process *)
    exited,
    (* observation of the run *)
    sig, clientsAtSig, aliveAtSig, pubStart, pubFailed, pubGot,
    (* modbus.py codec under test *)
    data, response, cpc, crc_ok,
    (* one call of read_input_registers: the receive loop and the checks *)
    rpc,         \* position in the call
    nreq,        \* its parameter num_registers
    wire,        \* bytes the device has still to send
    rbuf,        \* data, the bytearray of recv_full_response
    elapsed,     \* seconds since recv_full_response began
    result,      \* "ok", or the exception the call raised
    values       \* the registers returned, in tenths

cfgVars == <<NUM_REGISTERS, SAMPLE_RATE, DB_UPLOADINTERVAL, args_db>>
mainVars == <<pc, df, count, thread, registers, requested, row_dict, slept,
              exc, bi, si, tick>>
flushVars == <<flush, csv_file, uploaded>>
acceptVars == <<apc, aconn, nconn>>
obsVars == <<sig, clientsAtSig, aliveAtSig, pubStart, pubFailed, pubGot>>
readVars == <<rpc, nreq, wire, rbuf, elapsed, result, values>>
codecVars == <<data, response, cpc, crc_ok, readVars>>
vars == <<cfgVars, SERVER_RUNNING, CLIENTS, mainVars, flushVars, acceptVars,
          sock, exited, obsVars, codecVars>>

-----------------------------------------------------------------------------
(* Helpers                                                                 *)
Range(s) == {s[i] : i \in 1..Len(s)}

RECURSIVE RemoveFirst(_, _)
\* list.remove(x): drops the first occurrence of x
RemoveFirst(s, x) ==
    IF s = <<>> THEN <<>>
    ELSE IF Head(s) = x THEN Tail(s)
    ELSE <<Head(s)>> \o RemoveFirst(Tail(s), x)

RECURSIVE Flatten(_, _)
Flatten(f, n) == IF n = 0 THEN <<>> ELSE Flatten(f, n - 1) \o f[n].batch

-----------------------------------------------------------------------------
(* Configuration.                                                          *)

\* int(rc.SAMPLE_RATE * rc.DB_UPLOADINTERVAL)
Threshold(rate, interval) == rate * interval

\* rc.SAMPLE_RATE / 60, kept as the exact fraction num / den (seconds)
SleepSeconds(rate) == [num |-> rate, den |-> SecondsDivisor]

\* modbus_client.read_input_registers(): called without arguments, so the
\* register count put in the request frame is the default of the parameter
\* and self.num_registers is not used
RequestedRegisters(num_registers) == DefaultNumRegisters

\* dfheader = ["timestamp"] + ["channel_" + str(i + 1) for i in range(N)];
\* column 0 is the timestamp, column i is channel_i
DfHeader(n) == 0..n

\* row_dict: the timestamp and one key channel_{i+1} per decoded register
RowDict(nregs) == 0..nregs

\* the upload thread created with daemon=True
UploadDaemonTrue == TRUE

\* line 131: daemon=False of the upload thread
UploadDaemon == FALSE

\* outcomes of one call of read_input_registers: the values, or the exception
\* of create_connection / recv (OSError) or of the four checks (ValueError)
ReadFailures == {"OSError", "TooShort", "CRC", "SlaveOrFunction", "ByteCount"}
ReadOutcomes == {"ok"} \cup ReadFailures

FlushIds == 1..MaxFlush
ClientIds == 1..MaxClients

\* an upload thread is alive between start() and the return of upload_data
Alive(t) == flush[t].st \in {"to_csv", "upload"}
AliveSet == {t \in FlushIds : Alive(t)}
Started(t) == flush[t].st \in {"to_csv", "upload", "done"}
NumCreated == Cardinality({t \in FlushIds : flush[t].st # "none"})

MainEnded == pc \in {"done", "crashed"}

-----------------------------------------------------------------------------
(* Initial state: start_tcp_server() has returned, main() is at its loop.  *)
ReadIdle ==
    /\ rpc = "off"
    /\ nreq = 0
    /\ wire = <<>>
    /\ rbuf = <<>>
    /\ elapsed = 0
    /\ result = "none"
    /\ values = <<>>

CodecIdle ==
    /\ data = <<>>
    /\ response = <<>>
    /\ cpc = "off"
    /\ crc_ok = FALSE
    /\ ReadIdle

MainInit ==
    /\ SERVER_RUNNING = TRUE
    /\ CLIENTS = <<>>
    /\ pc = "while"
    /\ df = <<>>
    /\ count = 0
    /\ thread = None
    /\ registers = 0
    /\ requested = 0
    /\ row_dict = {}
    /\ slept = [num |-> 0, den |-> 1]
    /\ exc = "none"
    /\ bi = 0
    /\ si = 0
    /\ tick = 0
    /\ flush = [t \in FlushIds |-> [st |-> "none", batch |-> <<>>]]
    /\ csv_file = <<>>
    /\ uploaded = <<>>
    /\ apc = "check"
    /\ aconn = None
    /\ nconn = 0
    /\ sock = [c \in ClientIds |-> "none"]
    /\ exited = FALSE
    /\ sig = FALSE
    /\ clientsAtSig = {}
    /\ aliveAtSig = {}
    /\ pubStart = {}
    /\ pubFailed = {}
    /\ pubGot = {}

Init ==
    /\ NUM_REGISTERS \in RegisterCounts
    /\ SAMPLE_RATE \in SampleRates
    /\ DB_UPLOADINTERVAL \in UploadIntervals
    /\ args_db \in BOOLEAN
    /\ MainInit
    /\ CodecIdle

-----------------------------------------------------------------------------
(* main(): the DAQ loop, one action per step of a pass.                    *)

\* line 99: while SERVER_RUNNING
LoopTest ==
    /\ ~exited /\ pc = "while"
    /\ pc' = IF SERVER_RUNNING THEN "read" ELSE "done"
    /\ UNCHANGED <<cfgVars, SERVER_RUNNING, CLIENTS, df, count, thread,
                   registers, requested, row_dict, slept, exc, bi, si, tick,
                   flushVars, acceptVars, sock, exited, obsVars,
                   codecVars>>

\* line 101: registers = modbus_client.read_input_registers().  An exception
\* of the call is not a KeyboardInterrupt, no except clause of main() matches
\* it, and it ends main().
ReadRegisters ==
    /\ ~exited /\ pc = "read" /\ tick < MaxTicks
    /\ requested' = RequestedRegisters(NUM_REGISTERS)
    /\ \E outcome \in ReadOutcomes :
        IF outcome = "ok"
        THEN /\ registers' = requested'
             /\ tick' = tick + 1
             /\ pc' = "append"
             /\ exc' = exc
        ELSE /\ pc' = "crashed"
             /\ exc' = outcome
             /\ UNCHANGED <<registers, tick>>
    /\ UNCHANGED <<cfgVars, SERVER_RUNNING, CLIENTS, df, count, thread,
                   row_dict, slept, bi, si, flushVars, acceptVars, sock, exited, obsVars, codecVars>>

\* lines 103-113: build row_dict and append it to df
AppendRow ==
    /\ ~exited /\ pc = "append"
    /\ row_dict' = RowDict(registers)
    /\ df' = Append(df, tick)
    /\ pc' = "csv"
    /\ UNCHANGED <<cfgVars, SERVER_RUNNING, CLIENTS, count, thread, registers,
                   requested, slept, exc, bi, si, tick, flushVars, acceptVars,
                   sock, exited, obsVars, codecVars>>

\* lines 116-117: csv_row joins row_dict[col] for col in dfheader (KeyError
\* when a column of the header has no key), then broadcast_tcp_message starts
CsvRow ==
    /\ ~exited /\ pc = "csv"
    /\ IF DfHeader(NUM_REGISTERS) \subseteq row_dict
       THEN /\ pc' = "bcast"
            /\ bi' = 0
            /\ pubStart' = Range(CLIENTS)
            /\ pubFailed' = {}
            /\ pubGot' = {}
            /\ exc' = exc
       ELSE /\ pc' = "crashed"
            /\ exc' = "KeyError"
            /\ UNCHANGED <<bi, pubStart, pubFailed, pubGot>>
    /\ UNCHANGED <<cfgVars, SERVER_RUNNING, CLIENTS, df, count, thread,
                   registers, requested, row_dict, slept, si, tick, flushVars,
                   acceptVars, sock, exited, sig, clientsAtSig,
                   aliveAtSig, codecVars>>

\* lines 47-50: one step of "for conn, addr in CLIENTS" (the list iterator
\* compares its index with the current length) and conn.sendall, which
\* raises when the socket is closed or the peer has gone (client.py ended);
\* when the iterator is exhausted broadcast_tcp_message returns
Broadcast ==
    /\ ~exited /\ pc = "bcast"
    /\ IF bi < Len(CLIENTS)
       THEN LET c == CLIENTS[bi + 1] IN
            /\ bi' = bi + 1
            /\ \E sent \in IF sock[c] = "open" THEN BOOLEAN ELSE {FALSE} :
                 IF sent
                 THEN /\ pubGot' = pubGot \cup {c}
                      /\ pc' = "bcast"
                      /\ pubFailed' = pubFailed
                 ELSE /\ pc' = "evict"
                      /\ pubFailed' = pubFailed \cup {c}
                      /\ pubGot' = pubGot
       ELSE /\ pc' = "count"
            /\ bi' = 0
            /\ UNCHANGED <<pubGot, pubFailed>>
    /\ UNCHANGED <<cfgVars, SERVER_RUNNING, CLIENTS, df, count, thread,
                   registers, requested, row_dict, slept, exc, si, tick,
                   flushVars, acceptVars, sock, exited, sig, clientsAtSig,
                   aliveAtSig, pubStart, codecVars>>

\* lines 50-52: except: CLIENTS.remove((conn, addr))
Evict ==
    /\ ~exited /\ pc = "evict"
    /\ CLIENTS' = RemoveFirst(CLIENTS, CLIENTS[bi])
    /\ pc' = "stop_flag"
    /\ UNCHANGED <<cfgVars, SERVER_RUNNING, df, count, thread, registers,
                   requested, row_dict, slept, exc, bi, si, tick, flushVars,
                   acceptVars, sock, exited, obsVars, codecVars>>

\* stop_server() that ends main() at once (an exit in place of the return
\* into the loop), the rest of the pass not being run
StopFlagExits ==
    /\ ~exited /\ pc = "stop_flag"
    /\ SERVER_RUNNING' = FALSE
    /\ si' = 0
    /\ pc' = "done"
    /\ UNCHANGED <<cfgVars, CLIENTS, df, count, thread, registers, requested,
                   row_dict, slept, exc, bi, tick, flushVars, acceptVars,
                   sock, exited, obsVars, codecVars>>

\* lines 54, 57-58: stop_server(): SERVER_RUNNING = False
StopFlag ==
    /\ ~exited /\ pc = "stop_flag"
    /\ SERVER_RUNNING' = FALSE
    /\ si' = 0
    /\ pc' = "stop_close"
    /\ UNCHANGED <<cfgVars, CLIENTS, df, count, thread, registers, requested,
                   row_dict, slept, exc, bi, tick, flushVars, acceptVars,
                   sock, exited, obsVars, codecVars>>

\* lines 60-65: one step of "for conn, addr in CLIENTS: conn.close()"
StopClose ==
    /\ ~exited /\ pc = "stop_close"
    /\ IF si < Len(CLIENTS)
       THEN /\ sock' = [sock EXCEPT ![CLIENTS[si + 1]] = "closed"]
            /\ si' = si + 1
            /\ pc' = "stop_close"
       ELSE /\ pc' = "stop_clear"
            /\ si' = 0
            /\ sock' = sock
    /\ UNCHANGED <<cfgVars, SERVER_RUNNING, CLIENTS, df, count, thread,
                   registers, requested, row_dict, slept, exc, bi, tick,
                   flushVars, acceptVars, exited, obsVars,
                   codecVars>>

\* line 66: CLIENTS.clear(); stop_server returns into the for loop of
\* broadcast_tcp_message
StopClear ==
    /\ ~exited /\ pc = "stop_clear"
    /\ CLIENTS' = <<>>
    /\ pc' = "bcast"
    /\ UNCHANGED <<cfgVars, SERVER_RUNNING, df, count, thread, registers,
                   requested, row_dict, slept, exc, bi, si, tick, flushVars,
                   acceptVars, sock, exited, obsVars, codecVars>>

\* line 119: count += 1
CountUp ==
    /\ ~exited /\ pc = "count"
    /\ count' = count + 1
    /\ pc' = "sleep"
    /\ pubStart' = {} /\ pubFailed' = {} /\ pubGot' = {}
    /\ UNCHANGED <<cfgVars, SERVER_RUNNING, CLIENTS, df, thread, registers,
                   requested, row_dict, slept, exc, bi, si, tick, flushVars,
                   acceptVars, sock, exited, sig, clientsAtSig, aliveAtSig,
                   codecVars>>

\* line 121: time.sleep(rc.SAMPLE_RATE / 60)
Sleep ==
    /\ ~exited /\ pc = "sleep"
    /\ slept' = SleepSeconds(SAMPLE_RATE)
    /\ pc' = "thresh"
    /\ UNCHANGED <<cfgVars, SERVER_RUNNING, CLIENTS, df, count, thread,
                   registers, requested, row_dict, exc, bi, si, tick,
                   flushVars, acceptVars, sock, exited, obsVars,
                   codecVars>>

\* the test of line 123 written with > in place of >=
ThresholdReachedStrict(c, rate, interval) == c > Threshold(rate, interval)

\* line 123: if count >= int(rc.SAMPLE_RATE * rc.DB_UPLOADINTERVAL)
ThresholdReached(c, rate, interval) == c >= Threshold(rate, interval)

ThresholdTest ==
    /\ ~exited /\ pc = "thresh"
    /\ pc' = IF ThresholdReached(count, SAMPLE_RATE, DB_UPLOADINTERVAL)
             THEN "mkthread" ELSE "while"
    /\ UNCHANGED <<cfgVars, SERVER_RUNNING, CLIENTS, df, count, thread,
                   registers, requested, row_dict, slept, exc, bi, si, tick,
                   flushVars, acceptVars, sock, exited, obsVars,
                   codecVars>>

\* lines 125-132: thread = threading.Thread(target=upload_data,
\*                                          args=(df.copy(), csv_path))
MakeThread ==
    /\ ~exited /\ pc = "mkthread" /\ NumCreated < MaxFlush
    /\ LET t == NumCreated + 1 IN
        /\ flush' = [flush EXCEPT ![t] = [st |-> "created", batch |-> df]]
        /\ thread' = t
    /\ pc' = "start"
    /\ UNCHANGED <<cfgVars, SERVER_RUNNING, CLIENTS, df, count, registers,
                   requested, row_dict, slept, exc, bi, si, tick, csv_file,
                   uploaded, acceptVars, sock, exited, obsVars,
                   codecVars>>

\* line 133: thread.start()
StartThread ==
    /\ ~exited /\ pc = "start"
    /\ flush' = [flush EXCEPT ![thread].st = "to_csv"]
    /\ pc' = "reset_df"
    /\ UNCHANGED <<cfgVars, SERVER_RUNNING, CLIENTS, df, count, thread,
                   registers, requested, row_dict, slept, exc, bi, si, tick,
                   csv_file, uploaded, acceptVars, sock, exited,
                   obsVars, codecVars>>

\* line 135 left out: df keeps the rows that were handed to the thread
ResetDfKeepsRows ==
    /\ ~exited /\ pc = "reset_df"
    /\ df' = df
    /\ pc' = "reset_count"
    /\ UNCHANGED <<cfgVars, SERVER_RUNNING, CLIENTS, count, thread, registers,
                   requested, row_dict, slept, exc, bi, si, tick, flushVars,
                   acceptVars, sock, exited, obsVars, codecVars>>

\* line 135 preceded by thread.join(): the pass waits for the upload
ResetDfAfterJoin ==
    /\ ~exited /\ pc = "reset_df" /\ ~Alive(thread)
    /\ df' = <<>>
    /\ pc' = "reset_count"
    /\ UNCHANGED <<cfgVars, SERVER_RUNNING, CLIENTS, count, thread, registers,
                   requested, row_dict, slept, exc, bi, si, tick, flushVars,
                   acceptVars, sock, exited, obsVars, codecVars>>

\* line 135: df = pandas.DataFrame(columns=dfheader)
ResetDf ==
    /\ ~exited /\ pc = "reset_df"
    /\ df' = <<>>
    /\ pc' = "reset_count"
    /\ UNCHANGED <<cfgVars, SERVER_RUNNING, CLIENTS, count, thread, registers,
                   requested, row_dict, slept, exc, bi, si, tick, flushVars,
                   acceptVars, sock, exited, obsVars, codecVars>>

\* line 136: count = 0
ResetCount ==
    /\ ~exited /\ pc = "reset_count"
    /\ count' = 0
    /\ pc' = "while"
    /\ UNCHANGED <<cfgVars, SERVER_RUNNING, CLIENTS, df, thread, registers,
                   requested, row_dict, slept, exc, bi, si, tick, flushVars,
                   acceptVars, sock, exited, obsVars, codecVars>>

-----------------------------------------------------------------------------
(* KeyboardInterrupt: raised in the main thread between two of its steps.  *)

\* steps of main() lexically inside "try:" (lines 100-136) but outside the
\* try blocks of broadcast_tcp_message and stop_server; the except clause
\* of broadcast_tcp_message (evict .. stop_clear) runs inside main's try
InMainTry == {"read", "append", "csv", "bcast", "evict", "stop_flag",
              "stop_close", "stop_clear", "count", "sleep", "thresh",
              "mkthread", "start", "reset_df", "reset_count"}

SignalSeen ==
    /\ sig' = TRUE
    /\ clientsAtSig' = Range(CLIENTS)
    /\ aliveAtSig' = AliveSet

\* raised at a step that only main's "except KeyboardInterrupt" encloses
InterruptInTry ==
    /\ ~exited /\ ~sig /\ pc \in InMainTry
    /\ SignalSeen
    /\ pc' = "handler"
    /\ UNCHANGED <<cfgVars, SERVER_RUNNING, CLIENTS, df, count, thread,
                   registers, requested, row_dict, slept, exc, bi, si, tick,
                   flushVars, acceptVars, sock, exited, pubStart,
                   pubFailed, pubGot, codecVars>>

\* raised inside conn.sendall (line 49): the bare "except:" of
\* broadcast_tcp_message catches it as if the write had failed
InterruptInSend ==
    /\ ~exited /\ ~sig /\ pc = "bcast" /\ bi < Len(CLIENTS)
    /\ SignalSeen
    /\ bi' = bi + 1
    /\ pubFailed' = pubFailed \cup {CLIENTS[bi + 1]}
    /\ pc' = "evict"
    /\ UNCHANGED <<cfgVars, SERVER_RUNNING, CLIENTS, df, count, thread,
                   registers, requested, row_dict, slept, exc, si, tick,
                   flushVars, acceptVars, sock, exited, pubStart,
                   pubGot, codecVars>>

\* raised inside conn.close (line 62): "except: pass" of stop_server swallows
\* it; the socket was closed or not, depending on where close was reached
InterruptInClose ==
    /\ ~exited /\ ~sig /\ pc = "stop_close" /\ si < Len(CLIENTS)
    /\ SignalSeen
    /\ si' = si + 1
    /\ \E st \in {sock[CLIENTS[si + 1]], "closed"} :
         sock' = [sock EXCEPT ![CLIENTS[si + 1]] = st]
    /\ UNCHANGED <<cfgVars, SERVER_RUNNING, CLIENTS, pc, df, count, thread,
                   registers, requested, row_dict, slept, exc, bi, tick,
                   flushVars, acceptVars, exited, pubStart,
                   pubFailed, pubGot, codecVars>>

\* raised at the loop test of line 99, which no try block encloses
InterruptAtLoopTest ==
    /\ ~exited /\ ~sig /\ pc = "while"
    /\ SignalSeen
    /\ pc' = "crashed"
    /\ exc' = "KeyboardInterrupt"
    /\ UNCHANGED <<cfgVars, SERVER_RUNNING, CLIENTS, df, count, thread,
                   registers, requested, row_dict, slept, bi, si, tick,
                   flushVars, acceptVars, sock, exited, pubStart,
                   pubFailed, pubGot, codecVars>>

-----------------------------------------------------------------------------
(* except KeyboardInterrupt (lines 139-152)                                *)

\* line 140: if thread and thread.is_alive()
HandlerTest ==
    /\ ~exited /\ pc = "handler"
    /\ pc' = IF thread # None /\ Alive(thread) THEN "join" ELSE "h_flag"
    /\ UNCHANGED <<cfgVars, SERVER_RUNNING, CLIENTS, df, count, thread,
                   registers, requested, row_dict, slept, exc, bi, si, tick,
                   flushVars, acceptVars, sock, exited, obsVars,
                   codecVars>>

\* line 142: thread.join() returns once that thread has ended
Join ==
    /\ ~exited /\ pc = "join" /\ ~Alive(thread)
    /\ pc' = "h_flag"
    /\ UNCHANGED <<cfgVars, SERVER_RUNNING, CLIENTS, df, count, thread,
                   registers, requested, row_dict, slept, exc, bi, si, tick,
                   flushVars, acceptVars, sock, exited, obsVars,
                   codecVars>>

\* line 144: SERVER_RUNNING = False
HandlerFlag ==
    /\ ~exited /\ pc = "h_flag"
    /\ SERVER_RUNNING' = FALSE
    /\ pc' = "h_close"
    /\ UNCHANGED <<cfgVars, CLIENTS, df, count, thread, registers, requested,
                   row_dict, slept, exc, bi, si, tick, flushVars, acceptVars,
                   sock, exited, obsVars, codecVars>>

\* lines 145-149: "for c in CLIENTS: c.close()".  c is the tuple (conn, addr)
\* that handle_clients appended; a tuple has no close(), the AttributeError
\* is swallowed by "except: pass", and no socket is closed
HandlerCloseAll(socks, clients) == socks

\* lines 145-152: the loop over CLIENTS, then break: main() returns
HandlerClose ==
    /\ ~exited /\ pc = "h_close"
    /\ sock' = HandlerCloseAll(sock, CLIENTS)
    /\ pc' = "done"
    /\ UNCHANGED <<cfgVars, SERVER_RUNNING, CLIENTS, df, count, thread,
                   registers, requested, row_dict, slept, exc, bi, si, tick,
                   flushVars, acceptVars, exited, obsVars,
                   codecVars>>

-----------------------------------------------------------------------------
(* upload_data (lines 156-160), run by each upload thread                  *)

\* lines 157-158: if args.db: df_to_upload.to_csv(csv_path)
ToCsv(t) ==
    /\ ~exited /\ flush[t].st = "to_csv"
    /\ IF args_db
       THEN /\ csv_file' = flush[t].batch
            /\ flush' = [flush EXCEPT ![t].st = "upload"]
       ELSE /\ csv_file' = csv_file
            /\ flush' = [flush EXCEPT ![t].st = "done"]
    /\ UNCHANGED <<cfgVars, SERVER_RUNNING, CLIENTS, mainVars, uploaded,
                   acceptVars, sock, exited, obsVars, codecVars>>

\* lines 159-160: code = bvl_pymongodb.upload_from_csv(...): the collaborator
\* reads the file at csv_path and returns a status code, which is logged
UploadFromCsv(t) ==
    /\ ~exited /\ flush[t].st = "upload"
    /\ uploaded' = Append(uploaded, [by |-> t, rows |-> csv_file])
    /\ flush' = [flush EXCEPT ![t].st = "done"]
    /\ UNCHANGED <<cfgVars, SERVER_RUNNING, CLIENTS, mainVars, csv_file,
                   acceptVars, sock, exited, obsVars, codecVars>>

-----------------------------------------------------------------------------
(* handle_clients (lines 36-41), run by the daemon accept thread           *)

\* line 38: while SERVER_RUNNING
AcceptTest ==
    /\ ~exited /\ apc = "check"
    /\ apc' = IF SERVER_RUNNING THEN "accept" ELSE "exit"
    /\ UNCHANGED <<cfgVars, SERVER_RUNNING, CLIENTS, mainVars, flushVars,
                   aconn, nconn, sock, exited, obsVars, codecVars>>

\* line 39: conn, addr = server.accept() returns when a client connects
Accept ==
    /\ ~exited /\ apc = "accept" /\ nconn < MaxClients
    /\ nconn' = nconn + 1
    /\ aconn' = nconn + 1
    /\ sock' = [sock EXCEPT ![nconn + 1] = "open"]
    /\ apc' = "append"
    /\ UNCHANGED <<cfgVars, SERVER_RUNNING, CLIENTS, mainVars, flushVars, exited, obsVars, codecVars>>

\* line 41: CLIENTS.append((conn, addr))
Register ==
    /\ ~exited /\ apc = "append"
    /\ CLIENTS' = Append(CLIENTS, aconn)
    /\ aconn' = None
    /\ apc' = "check"
    /\ UNCHANGED <<cfgVars, SERVER_RUNNING, mainVars, flushVars, nconn, sock, exited, obsVars, codecVars>>

-----------------------------------------------------------------------------
(* The process ends when main() has ended and no non-daemon thread is      *)
(* alive (the interpreter joins them); the daemon accept thread dies then. *)
ProcessExit ==
    /\ ~exited /\ MainEnded
    /\ UploadDaemon \/ AliveSet = {}
    /\ exited' = TRUE
    /\ UNCHANGED <<cfgVars, SERVER_RUNNING, CLIENTS, mainVars, flushVars,
                   acceptVars, sock, obsVars, codecVars>>

\* a step of the while loop of main() (lines 99-136), the calls of
\* broadcast_tcp_message and stop_server included
MainLoopStep ==
    \/ LoopTest \/ ReadRegisters \/ AppendRow \/ CsvRow \/ Broadcast
    \/ Evict \/ StopFlag \/ StopClose \/ StopClear
    \/ CountUp \/ Sleep \/ ThresholdTest
    \/ MakeThread \/ StartThread \/ ResetDf \/ ResetCount

Next ==
    \/ LoopTest \/ ReadRegisters \/ AppendRow \/ CsvRow \/ Broadcast
    \/ Evict \/ StopFlag \/ StopClose \/ StopClear
    \/ CountUp \/ Sleep \/ ThresholdTest
    \/ MakeThread \/ StartThread \/ ResetDf \/ ResetCount
    \/ InterruptInTry \/ InterruptInSend \/ InterruptInClose
    \/ InterruptAtLoopTest
    \/ HandlerTest \/ Join \/ HandlerFlag \/ HandlerClose
    \/ \E t \in FlushIds : ToCsv(t) \/ UploadFromCsv(t)
    \/ AcceptTest \/ Accept \/ Register
    \/ ProcessExit

Spec == Init /\ [][Next]_vars

-----------------------------------------------------------------------------
(* modbus.py: the CRC16 of a frame and its check.                          *)

Bytes == {0, 1, 4, 8, 128, 255}

RECURSIVE ByteSeqs(_)
\* the byte strings of length n over Bytes
ByteSeqs(n) ==
    IF n = 0 THEN {<<>>}
    ELSE {Append(s, b) : s \in ByteSeqs(n - 1), b \in Bytes}

RECURSIVE Xor(_, _)
\* a ^ b on non-negative integers
Xor(a, b) ==
    IF a = 0 THEN b
    ELSE IF b = 0 THEN a
    ELSE ((a + b) % 2) + 2 * Xor(a \div 2, b \div 2)

\* the inner loop of crc16 without "crc ^= 0xA001"
CrcShiftNoPoly(crc) == crc \div 2

\* lines 22-26: one pass of the inner loop of crc16
CrcShift(crc) ==
    IF crc % 2 = 1 THEN Xor(crc \div 2, CrcPoly) ELSE crc \div 2

RECURSIVE CrcBits(_, _)
\* line 21: for _ in range(8)
CrcBits(crc, n) == IF n = 0 THEN crc ELSE CrcBits(CrcShift(crc), n - 1)

RECURSIVE CrcFold(_, _)
\* lines 19-26: for pos in data: crc ^= pos, then the eight shifts; the
\* register is a number before the next byte is folded in
CrcFold(crc, bytes) ==
    IF bytes = <<>> THEN crc
    ELSE LET next == CrcBits(Xor(crc, Head(bytes)), 8)
         IN  IF next \in Nat THEN CrcFold(next, Tail(bytes)) ELSE next

\* lines 16-29: struct.pack('<H', crc), least significant byte first
crc16(bytes) ==
    LET crc == CrcFold(CrcSeed, bytes) IN <<crc % 256, crc \div 256>>

\* response[-2:] and response[:-2] of Python slicing
LastTwo(r) == SubSeq(r, IF Len(r) >= 2 THEN Len(r) - 1 ELSE 1, Len(r))
ButLastTwo(r) == SubSeq(r, 1, Len(r) - 2)

\* line 109: the negation of "response[-2:] != crc16(response[:-2])"
CrcCheckPasses(r) == LastTwo(r) = crc16(ButLastTwo(r))

\* the byte v with bit k inverted
FlipBitOf(v, k) == Xor(v, 2 ^ k)

\* lines 83-86 (and the device, for a response): frame = body + crc16(body)
AppendCrc ==
    /\ cpc = "start"
    /\ response' = data \o crc16(data)
    /\ cpc' = "framed"
    /\ UNCHANGED <<cfgVars, SERVER_RUNNING, CLIENTS, mainVars, flushVars,
                   acceptVars, sock, exited, obsVars, data, crc_ok,
                   readVars>>

\* the line inverts bit k of byte i of the body; the checksum bytes stay
FlipBit(i, k) ==
    /\ cpc = "framed"
    /\ i \in 1..Len(data)
    /\ response' = [response EXCEPT ![i] = FlipBitOf(@, k)]
    /\ cpc' = "corrupt"
    /\ UNCHANGED <<cfgVars, SERVER_RUNNING, CLIENTS, mainVars, flushVars,
                   acceptVars, sock, exited, obsVars, data, crc_ok,
                   readVars>>

\* lines 108-110: check against CRC
CheckCrc ==
    /\ cpc \in {"framed", "corrupt"}
    /\ crc_ok' = CrcCheckPasses(response)
    /\ cpc' = IF cpc = "framed" THEN "checked" ELSE "checked_corrupt"
    /\ UNCHANGED <<cfgVars, SERVER_RUNNING, CLIENTS, mainVars, flushVars,
                   acceptVars, sock, exited, obsVars, data, response,
                   readVars>>

InitCodec ==
    /\ NUM_REGISTERS = DefaultNumRegisters
    /\ SAMPLE_RATE = 1
    /\ DB_UPLOADINTERVAL = 1
    /\ args_db = FALSE
    /\ MainInit
    /\ data \in UNION {ByteSeqs(n) : n \in 0..MaxLen}
    /\ response = <<>>
    /\ cpc = "start"
    /\ crc_ok = FALSE
    /\ ReadIdle

NextCodec ==
    \/ AppendCrc
    \/ \E i \in 1..MaxLen, k \in 0..7 : FlipBit(i, k)
    \/ CheckCrc

SpecCodec == InitCodec /\ [][NextCodec]_vars

-----------------------------------------------------------------------------
(* modbus.py: one call of read_input_registers, from the first recv to the *)
(* return or the exception                                                 *)

\* num_registers of the calls under test
RegisterRequests == {1, 2}

\* what the device may put on the line: a unit, a function code, a byte-count
\* field, a payload whose length need not agree with that field, and a
\* checksum that is right or has one bit flipped
Units == {Slave, Slave + 1}
Functions == {FunctionCode, FunctionCode + 128}
ByteCounts == {0, 2, 4}
Payloads == {<<>>, <<0, 100>>, <<0, 100, 1, 44>>}
Frame(unit, fc, bc, payload, good) ==
    LET body == <<unit, fc, bc>> \o payload
        crc == crc16(body)
    IN  body \o (IF good THEN crc ELSE <<FlipBitOf(crc[1], 0), crc[2]>>)
Frames ==
    {Frame(u, f, bc, p, g) : u \in Units, f \in Functions, bc \in ByteCounts,
                             p \in Payloads, g \in BOOLEAN}

\* sizes of the chunks recv(1024) hands over, and the seconds one recv may
\* wait for a chunk: less than the socket's timeout
ChunkSizes == {1, 2, RecvSize}
Delays == {0, RecvTimeout - 1}

Later(d) == IF elapsed + d > MaxElapsed THEN MaxElapsed ELSE elapsed + d

\* lines 44-50: the buffer holds the five bytes and the frame its third byte
\* announces
Complete(buf) == Len(buf) >= MinBytes /\ Len(buf) >= 3 + buf[3] + 2

\* lines 105-123 with "num_registers" in place of "num_registers * 2"
ValidateCountNotDoubled(resp, slave, n) ==
    IF Len(resp) < MinBytes THEN "TooShort"
    ELSE IF ~CrcCheckPasses(resp) THEN "CRC"
    ELSE IF resp[1] # slave \/ resp[2] # FunctionCode THEN "SlaveOrFunction"
    ELSE IF resp[3] # n THEN "ByteCount"
    ELSE "ok"

\* lines 105-123: the four checks, in the order of the code
Validate(resp, slave, n) ==
    IF Len(resp) < MinBytes THEN "TooShort"
    ELSE IF ~CrcCheckPasses(resp) THEN "CRC"
    ELSE IF resp[1] # slave \/ resp[2] # FunctionCode THEN "SlaveOrFunction"
    ELSE IF resp[3] # n * 2 THEN "ByteCount"
    ELSE "ok"

\* lines 129-133: register i is response[3+i*2 : 5+i*2], big-endian, in
\* tenths; struct.unpack raises struct.error on a slice shorter than two bytes
RegistersFit(resp, n) == Len(resp) >= 3 + 2 * n
Registers(resp, n) == [i \in 1..n |-> resp[2 + 2 * i] * 256 + resp[3 + 2 * i]]

ReadResult(resp, slave, n) ==
    LET v == Validate(resp, slave, n)
    IN  IF v # "ok" THEN v
        ELSE IF ~RegistersFit(resp, n) THEN "StructError"
        ELSE "ok"

ReadKeepsRest ==
    UNCHANGED <<cfgVars, SERVER_RUNNING, CLIENTS, mainVars, flushVars,
                acceptVars, sock, exited, obsVars, data, response, cpc, crc_ok>>

\* lines 40-50: recv returns a chunk after d seconds
RecvChunk(k, d) ==
    /\ rpc = "recv" /\ wire # <<>>
    /\ LET m == IF k < Len(wire) THEN k ELSE Len(wire)
       IN  /\ rbuf' = rbuf \o SubSeq(wire, 1, m)
           /\ wire' = SubSeq(wire, m + 1, Len(wire))
    /\ elapsed' = Later(d)
    /\ rpc' = IF Complete(rbuf') THEN "check" ELSE "recv"
    /\ UNCHANGED <<nreq, result, values>>
    /\ ReadKeepsRest

\* lines 41-42: recv returns no bytes, the peer has closed
RecvEmpty(d) ==
    /\ rpc = "recv"
    /\ elapsed' = Later(d)
    /\ rpc' = "check"
    /\ UNCHANGED <<nreq, wire, rbuf, result, values>>
    /\ ReadKeepsRest

\* lines 36, 51-52: one recv waited the socket's timeout and got nothing
RecvTimedOut ==
    /\ rpc = "recv"
    /\ elapsed' = Later(RecvTimeout)
    /\ rpc' = "check"
    /\ UNCHANGED <<nreq, wire, rbuf, result, values>>
    /\ ReadKeepsRest

\* lines 98-135: the collected bytes are checked and decoded
ValidateResponse ==
    /\ rpc = "check"
    /\ result' = ReadResult(rbuf, Slave, nreq)
    /\ values' = IF result' = "ok" THEN Registers(rbuf, nreq) ELSE <<>>
    /\ rpc' = IF result' = "ok" THEN "returned" ELSE "raised"
    /\ UNCHANGED <<nreq, wire, rbuf, elapsed>>
    /\ ReadKeepsRest

InitRead ==
    /\ NUM_REGISTERS = DefaultNumRegisters
    /\ SAMPLE_RATE = 1
    /\ DB_UPLOADINTERVAL = 1
    /\ args_db = FALSE
    /\ MainInit
    /\ data = <<>>
    /\ response = <<>>
    /\ cpc = "off"
    /\ crc_ok = FALSE
    /\ rpc = "recv"
    /\ nreq \in RegisterRequests
    /\ wire \in Frames
    /\ rbuf = <<>>
    /\ elapsed = 0
    /\ result = "none"
    /\ values = <<>>

NextRead ==
    \/ \E k \in ChunkSizes, d \in Delays : RecvChunk(k, d)
    \/ \E d \in Delays : RecvEmpty(d)
    \/ RecvTimedOut
    \/ ValidateResponse

SpecRead == InitRead /\ [][NextRead]_vars

-----------------------------------------------------------------------------
(* Properties                                                              *)

Upto(n) == [i \in 1..n |-> i]
StartedCount == Cardinality({t \in FlushIds : Started(t)})
\* the rows handed to the upload threads started so far, in start order
DispatchedRows == Flatten(flush, StartedCount)
AppendedSamples == Range(df) \cup UNION {Range(flush[t].batch) : t \in FlushIds}
UploadedSamples == UNION {Range(uploaded[i].rows) : i \in 1..Len(uploaded)}
T == Threshold(SAMPLE_RATE, DB_UPLOADINTERVAL)

\* C1: a device read that fails while the loop runs is caught within the
\* pass: main() is back at the loop test, still running, with df and count
\* as they were before the read.
C1_ReadFailureCaught ==
    [][(pc = "read" /\ pc' \notin {"read", "append", "handler"})
         => (pc' = "while" /\ SERVER_RUNNING' /\ df' = df /\ count' = count)]_vars

\* C2: when a publish to a registry holding at least one other subscriber
\* has hit a write failure on one subscriber, every other subscriber that was
\* registered at its start has received the line, is still registered and
\* not closed, the failing one is gone, and the server keeps running.
C2_OnlyFailingSubscriberEvicted ==
    (/\ pc = "count" /\ ~sig
     /\ Cardinality(pubFailed) = 1 /\ pubFailed \subseteq pubStart
     /\ Cardinality(pubStart) >= 2) =>
        /\ SERVER_RUNNING
        /\ \A c \in pubFailed : c \notin Range(CLIENTS)
        /\ \A c \in pubStart \ pubFailed :
             /\ c \in pubGot
             /\ c \in Range(CLIENTS)
             /\ sock[c] # "closed"

\* C3: the loop stops taking passes (flag false, or main() ended) only after
\* a KeyboardInterrupt was delivered.
C3_StopsOnlyOnSignal ==
    (~SERVER_RUNNING \/ MainEnded) => sig

\* C4: an upload is dispatched exactly when df holds T = rate * interval
\* rows, once per T successful reads; each dispatched batch is the next T
\* samples in arrival order; after the dispatch df is empty and count is 0;
\* the dispatched batches followed by df are exactly the samples read so far.
C4_FlushEveryThreshold ==
    /\ \A t \in FlushIds :
         flush[t].st # "none" =>
            flush[t].batch = [i \in 1..T |-> (t - 1) * T + i]
    /\ pc \in {"while", "read"} =>
         /\ Len(df) < T
         /\ count = Len(df)
         /\ NumCreated = StartedCount
         /\ StartedCount = tick \div T
         /\ DispatchedRows \o df = Upto(tick)
    /\ pc \in {"csv", "bcast", "evict", "stop_flag", "stop_close",
               "stop_clear", "count"} =>
         /\ count = Len(df) - 1
         /\ Len(df) <= T
         /\ DispatchedRows \o df = Upto(tick)
    /\ pc \in {"sleep", "thresh"} =>
         /\ count = Len(df)
         /\ Len(df) <= T
         /\ DispatchedRows \o df = Upto(tick)
    /\ pc \in {"mkthread", "start"} =>
         /\ Len(df) = T
         /\ DispatchedRows \o df = Upto(tick)
    /\ pc = "reset_df" =>
         /\ df = flush[thread].batch
         /\ DispatchedRows = Upto(tick)
    /\ pc = "reset_count" =>
         /\ df = <<>>
         /\ DispatchedRows = Upto(tick)

\* an upload was dispatched at the threshold and the next sample sits alone
\* in the fresh batch
C4_Witness ==
    /\ pc = "sleep" /\ T = 1
    /\ StartedCount = 1 /\ flush[1].batch = <<1>>
    /\ df = <<2>> /\ count = 1

\* C5: after a KeyboardInterrupt the process has ended only if no upload
\* thread is alive, and the handler passes its join only once the thread
\* it tracks has ended.
C5_ExitAfterUpload ==
    /\ (exited /\ sig) => AliveSet = {}
    /\ (pc \in {"h_flag", "h_close"} /\ thread # None) => ~Alive(thread)

\* the interrupt arrived while an upload thread was alive, and the process
\* has ended
C5_Witness == exited /\ sig /\ aliveAtSig # {}

\* C6: when the process has ended after a KeyboardInterrupt (with --db),
\* every sample appended to df during the run was handed to upload_from_csv.
C6_NoSampleLost ==
    (exited /\ sig /\ args_db) => AppendedSamples \subseteq UploadedSamples

\* C7: when main() has returned after a KeyboardInterrupt, every client
\* that was registered when the interrupt arrived has been closed and is no
\* longer in CLIENTS.
C7_ClientsClosedAtStop ==
    (pc = "done" /\ sig) =>
        \A c \in clientsAtSig : sock[c] = "closed" /\ c \notin Range(CLIENTS)

\* C8: the register count requested and the number of decoded readings are
\* rc.NUM_REGISTERS, and the row has exactly the columns of the header.
C8_OneReadingPerChannel ==
    pc = "csv" =>
        /\ requested = NUM_REGISTERS
        /\ registers = NUM_REGISTERS
        /\ row_dict = DfHeader(NUM_REGISTERS)

\* C9: the sleep of a pass, times the rate, is 60 seconds.
C9_SleepIsSixtyOverRate ==
    pc = "thresh" => slept.num * SAMPLE_RATE = 60 * slept.den

\* C10: a body followed by its crc16 passes the CRC check, and the same
\* frame with one bit of the body inverted fails it.
C10_CrcRoundTrip ==
    /\ cpc = "checked" => crc_ok
    /\ cpc = "checked_corrupt" => ~crc_ok

\* a frame of full length with an inverted bit in its last body byte has
\* been checked
C10_Witness ==
    /\ cpc = "checked_corrupt"
    /\ Len(data) = MaxLen
    /\ response[MaxLen] # data[MaxLen]

\* the steps of publish and of stop_server that traverse or clear CLIENTS
RegistryBusy == {"bcast", "evict", "stop_flag", "stop_close", "stop_clear"}

\* C12: no registration by the accept thread takes effect while a publish
\* traversal or the traversal/clear of stop_server is in progress.
C12_RegistryAccessExclusive ==
    [][(apc = "append" /\ apc' = "check") => pc \notin RegistryBusy]_vars

\* C13: once stop_server() has completed (flag false, CLIENTS cleared), no
\* later step adds a connection: CLIENTS stays empty.
C13_NoAcceptAfterShutdown ==
    [][(/\ ~SERVER_RUNNING /\ ~sig
        /\ pc \notin {"stop_close", "stop_clear"}
        /\ CLIENTS = <<>>) => CLIENTS' = <<>>]_vars

\* C14: at most one upload thread is alive at any moment.
C14_AtMostOneUpload == Cardinality(AliveSet) <= 1

\* C15: the rows an upload thread was created with never change, whatever
\* main() does meanwhile, and whenever main() reads df (to append a row or to
\* copy it for a new thread) df shares no row with a batch already handed
\* to a started thread.
C15_BatchMovedAtFlush ==
    [][/\ \A t \in FlushIds :
            flush[t].st # "none" => flush'[t].batch = flush[t].batch
       /\ pc \in {"append", "mkthread"} =>
            \A t \in FlushIds :
                Started(t) => Range(df) \cap Range(flush[t].batch) = {}]_vars

\* a row was appended to the fresh df while the thread holding the previous
\* batch was still alive
C15_Witness ==
    /\ pc = "csv" /\ df = <<2>>
    /\ Alive(1) /\ flush[1].batch = <<1>>

\* C16: while the loop runs, its next step can always be taken, whatever the
\* state of the upload threads (alive, ended, or stuck in a store call that
\* never returns): the loop never waits for an upload.  (The two exceptions
\* are the bounds of the model on reads and on threads.)
C16_LoopNeverWaitsForUpload ==
    (/\ ~exited
     /\ pc \in InMainTry \cup {"while"}
     /\ pc = "read" => tick < MaxTicks
     /\ pc = "mkthread" => NumCreated < MaxFlush) => ENABLED MainLoopStep

\* the read of the second pass has been taken while the upload of the first
\* batch is still inside the store call
C16_Witness ==
    /\ pc = "append" /\ tick = 2
    /\ flush[1].st = "upload"

LeftLoop == {"handler", "join", "h_flag", "h_close", "done"}

C19_UploadsOwnBatch ==
    \A i \in 1..Len(uploaded) :
        uploaded[i].rows = flush[uploaded[i].by].batch

\* C20: every accepted connection that is not closed is in CLIENTS (the
\* one handle_clients holds between accept and append aside).
C20_NoConnectionLeak ==
    \A c \in ClientIds :
        (sock[c] = "open" /\ c # aconn) => c \in Range(CLIENTS)

ReadEnded == rpc \in {"returned", "raised"}
ByteCountDiffers == Len(rbuf) >= 3 /\ rbuf[3] # 2 * nreq

\* C11: a response whose byte-count field (byte 2) differs from twice the
\* requested register count makes the read fail with the byte-count error and
\* return no values.
C11_ByteCountMismatchRaised ==
    (ReadEnded /\ ByteCountDiffers) =>
        (rpc = "raised" /\ result = "ByteCount" /\ values = <<>>)

\* C11, amended: such a response always makes the read fail and return no
\* values; the failure is the byte-count error when the response passes the
\* length, checksum and unit/function checks, which the code runs first.
C11_MismatchFailsInCheckOrder ==
    (ReadEnded /\ ByteCountDiffers) =>
        /\ rpc = "raised"
        /\ values = <<>>
        /\ result \in {"TooShort", "CRC", "SlaveOrFunction", "ByteCount"}
        /\ (/\ Len(rbuf) >= MinBytes
            /\ CrcCheckPasses(rbuf)
            /\ rbuf[1] = Slave
            /\ rbuf[2] = FunctionCode) => result = "ByteCount"

C11_Witness ==
    /\ rpc = "raised" /\ result = "ByteCount"
    /\ nreq = 1 /\ Len(rbuf) = 9 /\ rbuf[3] = 4 /\ wire = <<>>

\* C18: the receive loop stops as soon as the buffer holds 3 + byteCount + 2
\* bytes, and otherwise once the one overall timeout has elapsed since the
\* read began, however many chunks the device keeps delivering.
C18_StopsAtOverallTimeout ==
    rpc = "recv" =>
        /\ ~(Len(rbuf) >= 3 /\ Len(rbuf) >= 3 + rbuf[3] + 2)
        /\ elapsed < RecvTimeout

=============================================================================
